---- MODULE Spec2Model ----
(***************************************************************************)
(* Transfer orchestration of ProGallery.                                   *)
(*                                                                         *)
(*  - Upload path: UploadProvider.uploadFiles (src/unnamed/part_000, the   *)
(*    latest version of src/contexts/UploadContext.tsx).                   *)
(*  - Bulk-download path: ClientGallery.handleDownloadAll and              *)
(*    cancelDownloadAll (src/pages/ClientGallery.tsx).                     *)
(*  - Count-based progress: the percentage published from a finally block  *)
(*    (ClientGallery.tsx:334-338, UploadContext.tsx:84-89).                *)
(*                                                                         *)
(* JavaScript runs the handlers on one thread: an action of this module is *)
(* one run-to-completion step (an event handler, a timer callback, or the  *)
(* continuation of an await up to the next await).                         *)
(***************************************************************************)
EXTENDS Integers, Sequences, FiniteSets

VARIABLES
    \* ---- upload path (UploadProvider) ----
    uploading,          \* useState(false)
    progress,           \* useState(0)
    activeGalleryId,    \* useState(null); "null" or a gallery id
    fileProgressMap,    \* useRef([]).current; entries are held multiplied by
                        \* filesToUpload.length (see bytesPerTickN)
    filesToUpload,      \* argument of the running call: sequence of file sizes
    uploadErrors,       \* local of the running call: sequence of file indices
    taskPc,             \* per file: "upload" | "insert" | "done"
    simulationInterval, \* per file: TRUE while its interval is set
    uiInterval,         \* TRUE while the publish interval is set
    resetTimer,         \* TRUE while the reset setTimeout is pending
    stored,             \* files whose storage write succeeded
    inserted,           \* files whose metadata record was inserted
    lastAlert,          \* last alert() shown: "none" | "already" | "errors"
    earlier,            \* <<>>, or the locals of a call of uploadFiles that is
                        \* still running when the next call was accepted
    \* ---- count-based progress (one batch of total tasks) ----
    totalTaskCount,     \* const total = files.length
    completedTaskCount, \* let processed = 0
    displayPercent,     \* the percentage last published from a finally block
    \* ---- bulk-download path (ClientGallery) ----
    files,              \* useState<GalleryFile[]>: per file the last segment
                        \* of file_path (the name it gets in the archive)
    selection_enabled,  \* gallery.selection_enabled
    balance,            \* gallery.agreed_balance - gallery.amount_paid
    showPayModal,       \* useState(false)
    downloadingAll,     \* useState(false)
    downloadProgress,   \* useState(0)
    downloadStatusText, \* useState('')
    abortControllerRef, \* useRef(null).current: 0 (null) or the call whose
                        \* AbortController it holds
    dlAlert,            \* last alert() shown: "none" | "selection" | "failed"
    batch               \* per call of handleDownloadAll: its locals

upVars == <<uploading, progress, activeGalleryId, fileProgressMap, filesToUpload,
            uploadErrors, taskPc, simulationInterval, uiInterval, resetTimer,
            stored, inserted, lastAlert, earlier>>

cntVars == <<totalTaskCount, completedTaskCount, displayPercent>>

dlVars == <<files, selection_enabled, balance, showPayModal, downloadingAll,
            downloadProgress, downloadStatusText, abortControllerRef, dlAlert,
            batch>>

vars == <<upVars, cntVars, dlVars>>

\* ------------------------------------------------------------------------
\* Bounds of the model
\* ------------------------------------------------------------------------
MaxFiles == 2          \* files per upload batch
MaxTicks == 3          \* simulation ticks modelled per file
MaxTotal == 200        \* tasks in a batch of the count-based progress
MaxDownloadFiles == 4  \* files of the gallery that is downloaded
MaxBatches == 2        \* overlapping calls of handleDownloadAll
MaxOverlapFiles == 1   \* files of a gallery whose calls may overlap
MaxResubmitFiles == 1  \* files per upload batch when calls may overlap

\* File sizes in bytes: one the first tick overshoots, one the ticks reach
\* exactly, one above the 50 MiB threshold.
Sizes == {100000, 3000000, 53000000}
GalleryIds == {"g1", "g2"}

\* ------------------------------------------------------------------------
\* Helpers
\* ------------------------------------------------------------------------
RECURSIVE SumSeq(_)
SumSeq(s) == IF s = <<>> THEN 0 ELSE Head(s) + SumSeq(Tail(s))

Min(a, b) == IF a <= b THEN a ELSE b

Max(a, b) == IF a >= b THEN a ELSE b

SeqsUpTo(S, n) == UNION {[1..k -> S] : k \in 1..n}

\* k*x = d*b + r with 0 <= r < b, for 0 <= x < b, by repeated addition so
\* that no intermediate value exceeds b.
RECURSIVE MulMod(_, _, _)
MulMod(k, x, b) ==
    IF k = 0 THEN <<0, 0>>
    ELSE LET p == MulMod(k - 1, x, b)
         IN  IF p[2] >= b - x THEN <<p[1] + 1, p[2] - (b - x)>>
             ELSE <<p[1], p[2] + x>>

\* Math.round((a / b) * 100) for a >= 0, b > 0: round half up.  100 = 5*5*2*2
\* is applied to the remainder digit by digit.
RoundPercent(a, b) ==
    LET q  == a \div b
        s1 == MulMod(5, a % b, b)
        s2 == MulMod(5, s1[2], b)
        s3 == MulMod(2, s2[2], b)
        s4 == MulMod(2, s3[2], b)
        fl == 100 * q + 20 * s1[1] + 4 * s2[1] + 2 * s3[1] + s4[1]
    IN  IF s4[2] >= b - s4[2] THEN fl + 1 ELSE fl

\* ------------------------------------------------------------------------
\* Upload path: src/unnamed/part_000
\* ------------------------------------------------------------------------
NumFiles == Len(filesToUpload)

\* part_000:53
totalBytes == SumSeq(filesToUpload)

\* What reading an index the array does not hold yields (part_000:80)
Undefined == -1

\* part_000:80: fileProgressMap.current[index]
Entry(map, index) == IF index \in DOMAIN map THEN map[index] ELSE Undefined

\* part_000:83, 134: fileProgressMap.current[index] = v; writing past the
\* end lengthens the array and leaves the skipped indices undefined
SetEntry(map, index, v) ==
    [j \in 1..Max(Len(map), index) |-> IF j = index THEN v ELSE Entry(map, j)]

\* part_000:60: fileProgressMap.current.reduce((a, b) => a + b, 0), which
\* skips the indices that hold nothing
RECURSIVE SumEntries(_)
SumEntries(map) ==
    IF map = <<>> THEN 0
    ELSE (IF Head(map) = Undefined THEN 0 ELSE Head(map)) + SumEntries(Tail(map))

\* part_000:71-72
estimatedSpeed(size) == IF size > 50 * 1024 * 1024 THEN 500000 ELSE 2000000

\* part_000:76
tickRateMs == 500

\* part_000:75-77: bytesPerTick = (estimatedSpeed / length) * tickRateMs / 1000.
\* The division by the number of files is not exact, so the model holds
\* every entry of fileProgressMap multiplied by that number:
\* bytesPerTickN = bytesPerTick * length.
bytesPerTickN(size) == (estimatedSpeed(size) * tickRateMs) \div 1000

\* part_000:82: current < file.size * 0.90, on the scaled entry; false when
\* current is undefined
BelowSimulationCap(curN, size) ==
    curN # Undefined /\ 10 * curN < 9 * size * NumFiles

\* part_000:62-63
ProgressCeiling == 95

\* part_000:60-61, for a call whose files have tb bytes in all
PercentageOf(tb) ==
    IF tb > 0
    THEN RoundPercent(SumEntries(fileProgressMap), tb * NumFiles)
    ELSE 0

\* part_000:60-61
percentage == PercentageOf(totalBytes)

\* ------------------------------------------------------------------------
\* Count-based progress: src/pages/ClientGallery.tsx:334-338 (bulk download)
\* and src/contexts/UploadContext.tsx:84-89 (first upload version)
\* ------------------------------------------------------------------------

\* ClientGallery.tsx:336: Math.round((processed / total) * 100), round half
\* up; the counts are small, so the product is formed directly
CountPercent(done, n) == (200 * done + n) \div (2 * n)

CountIdle ==
    /\ totalTaskCount = 0
    /\ completedTaskCount = 0
    /\ displayPercent = 0

\* ClientGallery.tsx:334-338: the finally block of one task
CountTaskFinally ==
    /\ completedTaskCount < totalTaskCount
    /\ completedTaskCount' = completedTaskCount + 1
    /\ displayPercent' = CountPercent(completedTaskCount + 1, totalTaskCount)
    /\ UNCHANGED <<totalTaskCount, upVars, dlVars>>

CountNext == CountTaskFinally

UpInit ==
    /\ uploading = FALSE
    /\ progress = 0
    /\ activeGalleryId = "null"
    /\ fileProgressMap = <<>>
    /\ filesToUpload = <<>>
    /\ uploadErrors = <<>>
    /\ taskPc = <<>>
    /\ simulationInterval = <<>>
    /\ uiInterval = FALSE
    /\ resetTimer = FALSE
    /\ stored = {}
    /\ inserted = {}
    /\ lastAlert = "none"
    /\ earlier = <<>>

\* part_000:43-47: uploadFiles called while uploading
UploadRejected ==
    /\ uploading
    /\ lastAlert' = "already"
    /\ UNCHANGED <<uploading, progress, activeGalleryId, fileProgressMap,
                   filesToUpload, uploadErrors, taskPc, simulationInterval,
                   uiInterval, resetTimer, stored, inserted>>
    /\ UNCHANGED <<earlier, cntVars, dlVars>>

\* The locals of the call the variables hold, as a record
CurrentCall ==
    [filesToUpload |-> filesToUpload, uploadErrors |-> uploadErrors,
     taskPc |-> taskPc, simulationInterval |-> simulationInterval,
     uiInterval |-> uiInterval, resetTimer |-> resetTimer,
     stored |-> stored, inserted |-> inserted]

\* A call still has a ticker or a timer to run
CallAlive == uiInterval \/ resetTimer

\* part_000:49-100: the body of uploadFiles past the guard, up to the first
\* await of every file (the storage write).  The variables hold the locals
\* of the call that starts; a call that is still running keeps its locals
\* in earlier.  The model follows two calls at a time, of equally many
\* files (the entries of the shared fileProgressMap are held multiplied by
\* that number).
CallStarted(galleryId, fs) ==
    /\ uploading' = TRUE
    /\ activeGalleryId' = galleryId
    /\ progress' = 0
    /\ filesToUpload' = fs
    /\ fileProgressMap' = [i \in 1..Len(fs) |-> 0]
    /\ uploadErrors' = <<>>
    /\ uiInterval' = TRUE
    /\ simulationInterval' = [i \in 1..Len(fs) |-> TRUE]
    /\ taskPc' = [i \in 1..Len(fs) |-> "upload"]
    /\ stored' = {}
    /\ inserted' = {}
    /\ lastAlert' = "none"
    /\ resetTimer' = FALSE
    /\ IF CallAlive
       THEN /\ earlier = <<>>
            /\ Len(fs) = NumFiles
            /\ earlier' = <<CurrentCall>>
       ELSE UNCHANGED earlier

\* part_000:43-100: uploadFiles accepted: the closure that is called was
\* created by a render that saw uploading false, and that is the state
UploadAccepted(galleryId, fs) ==
    /\ ~uploading
    /\ CallStarted(galleryId, fs)
    /\ UNCHANGED <<cntVars, dlVars>>

\* The state a call of uploadFiles leaves before anything else has run
JustSubmitted ==
    /\ uploading
    /\ uiInterval
    /\ progress = 0
    /\ \A i \in 1..NumFiles : taskPc[i] = "upload" /\ Entry(fileProgressMap, i) = 0

\* part_000:43-100 with 158: uploadFiles is created per render with the
\* uploading of that render (useCallback deps [uploading]).  Called again
\* before the render that follows setUploading(true), it is the closure
\* that read uploading false: the guard does not fire and the body runs.
UploadResubmitted(galleryId, fs) ==
    /\ JustSubmitted
    /\ CallStarted(galleryId, fs)
    /\ UNCHANGED <<cntVars, dlVars>>

\* The publish ticker without the ceiling.
UiTickUncapped ==
    /\ uiInterval
    /\ progress' = percentage
    /\ UNCHANGED <<uploading, activeGalleryId, fileProgressMap, filesToUpload,
                   uploadErrors, taskPc, simulationInterval, uiInterval,
                   resetTimer, stored, inserted, lastAlert>>
    /\ UNCHANGED <<earlier, cntVars, dlVars>>

\* part_000:59-64: the publish ticker
UiTick ==
    /\ uiInterval
    /\ progress' = Min(ProgressCeiling, percentage)
    /\ UNCHANGED <<uploading, activeGalleryId, fileProgressMap, filesToUpload,
                   uploadErrors, taskPc, simulationInterval, uiInterval,
                   resetTimer, stored, inserted, lastAlert>>
    /\ UNCHANGED <<earlier, cntVars, dlVars>>

\* part_000:79-85: the simulation ticker of file index
SimulationTick(index) ==
    /\ index \in 1..NumFiles
    /\ simulationInterval[index]
    /\ Entry(fileProgressMap, index)
           < MaxTicks * bytesPerTickN(filesToUpload[index])
    /\ LET current == Entry(fileProgressMap, index)
       IN  fileProgressMap' =
             IF BelowSimulationCap(current, filesToUpload[index])
             THEN SetEntry(fileProgressMap, index,
                           current + bytesPerTickN(filesToUpload[index]))
             ELSE fileProgressMap
    /\ UNCHANGED <<uploading, progress, activeGalleryId, filesToUpload,
                   uploadErrors, taskPc, simulationInterval, uiInterval,
                   resetTimer, stored, inserted, lastAlert>>
    /\ UNCHANGED <<earlier, cntVars, dlVars>>

\* A finally block of one file that clears the interval and leaves the
\* entry where the simulation had put it.
TaskSettleNoSnap(index, failed) ==
    /\ uploadErrors' = IF failed THEN Append(uploadErrors, index) ELSE uploadErrors
    /\ simulationInterval' = [simulationInterval EXCEPT ![index] = FALSE]
    /\ fileProgressMap' = fileProgressMap
    /\ taskPc' = [taskPc EXCEPT ![index] = "done"]

\* A failure that ends the whole batch: every other task is dropped.
TaskSettleFailFast(index, failed) ==
    /\ uploadErrors' = IF failed THEN Append(uploadErrors, index) ELSE uploadErrors
    /\ simulationInterval' = [simulationInterval EXCEPT ![index] = FALSE]
    /\ fileProgressMap' =
         SetEntry(fileProgressMap, index, filesToUpload[index] * NumFiles)
    /\ taskPc' = IF failed THEN [i \in DOMAIN taskPc |-> "done"]
                 ELSE [taskPc EXCEPT ![index] = "done"]

\* part_000:128-135: catch (when failed) and finally of one file
TaskSettle(index, failed) ==
    /\ uploadErrors' = IF failed THEN Append(uploadErrors, index) ELSE uploadErrors
    /\ simulationInterval' = [simulationInterval EXCEPT ![index] = FALSE]
    /\ fileProgressMap' =
         SetEntry(fileProgressMap, index, filesToUpload[index] * NumFiles)
    /\ taskPc' = [taskPc EXCEPT ![index] = "done"]

\* A storage write whose failure is recorded without leaving the try block:
\* the insert is attempted all the same.
StorageResolveNoThrow(index, ok) ==
    /\ index \in 1..NumFiles
    /\ taskPc[index] = "upload"
    /\ stored' = IF ok THEN stored \cup {index} ELSE stored
    /\ uploadErrors' = IF ok THEN uploadErrors ELSE Append(uploadErrors, index)
    /\ taskPc' = [taskPc EXCEPT ![index] = "insert"]
    /\ UNCHANGED <<simulationInterval, fileProgressMap>>
    /\ UNCHANGED <<uploading, progress, activeGalleryId, filesToUpload,
                   uiInterval, resetTimer, inserted, lastAlert>>
    /\ UNCHANGED <<earlier, cntVars, dlVars>>

\* part_000:94-102: the storage write resolves
StorageResolve(index, ok) ==
    /\ index \in 1..NumFiles
    /\ taskPc[index] = "upload"
    /\ IF ok
       THEN /\ stored' = stored \cup {index}
            /\ taskPc' = [taskPc EXCEPT ![index] = "insert"]
            /\ UNCHANGED <<uploadErrors, simulationInterval, fileProgressMap>>
       ELSE /\ TaskSettle(index, TRUE)
            /\ UNCHANGED stored
    /\ UNCHANGED <<uploading, progress, activeGalleryId, filesToUpload,
                   uiInterval, resetTimer, inserted, lastAlert>>
    /\ UNCHANGED <<earlier, cntVars, dlVars>>

\* A metadata insert whose failure is not thrown: the task ends without a
\* record and without an entry in uploadErrors.
InsertResolveSilent(index, ok) ==
    /\ index \in 1..NumFiles
    /\ taskPc[index] = "insert"
    /\ inserted' = IF ok THEN inserted \cup {index} ELSE inserted
    /\ TaskSettle(index, FALSE)
    /\ UNCHANGED <<uploading, progress, activeGalleryId, filesToUpload,
                   uiInterval, resetTimer, stored, lastAlert>>
    /\ UNCHANGED <<earlier, cntVars, dlVars>>

\* part_000:116-135: the metadata insert resolves
InsertResolve(index, ok) ==
    /\ index \in 1..NumFiles
    /\ taskPc[index] = "insert"
    /\ inserted' = IF ok THEN inserted \cup {index} ELSE inserted
    /\ TaskSettle(index, ~ok)
    /\ UNCHANGED <<uploading, progress, activeGalleryId, filesToUpload,
                   uiInterval, resetTimer, stored, lastAlert>>
    /\ UNCHANGED <<earlier, cntVars, dlVars>>

AllTasksDone == \A i \in 1..NumFiles : taskPc[i] = "done"

\* A finally block of the batch that does not wait for the tasks: it runs
\* as soon as one of them has settled.
BatchFinallyEarly ==
    /\ uiInterval
    /\ \E i \in 1..NumFiles : taskPc[i] = "done"
    /\ uiInterval' = FALSE
    /\ progress' = 100
    /\ lastAlert' = IF Len(uploadErrors) > 0 THEN "errors" ELSE lastAlert
    /\ resetTimer' = TRUE
    /\ UNCHANGED <<uploading, activeGalleryId, fileProgressMap, filesToUpload,
                   uploadErrors, taskPc, simulationInterval, stored, inserted>>
    /\ UNCHANGED <<earlier, cntVars, dlVars>>

\* A finally block that starts the reset timer without forcing 100.
BatchFinallyNoHundred ==
    /\ uiInterval
    /\ AllTasksDone
    /\ uiInterval' = FALSE
    /\ lastAlert' = IF Len(uploadErrors) > 0 THEN "errors" ELSE lastAlert
    /\ resetTimer' = TRUE
    /\ UNCHANGED <<uploading, progress, activeGalleryId, fileProgressMap,
                   filesToUpload, uploadErrors, taskPc, simulationInterval,
                   stored, inserted>>
    /\ UNCHANGED <<earlier, cntVars, dlVars>>

\* A finally block that leaves the publish ticker running.
BatchFinallyTickerLeft ==
    /\ uiInterval
    /\ AllTasksDone
    /\ progress' = 100
    /\ lastAlert' = IF Len(uploadErrors) > 0 THEN "errors" ELSE lastAlert
    /\ resetTimer' = TRUE
    /\ UNCHANGED <<uploading, activeGalleryId, fileProgressMap, filesToUpload,
                   uploadErrors, taskPc, simulationInterval, uiInterval,
                   stored, inserted>>
    /\ UNCHANGED <<earlier, cntVars, dlVars>>

\* part_000:67, 140-157: Promise.all resolves; the batch's finally block
BatchFinally ==
    /\ uiInterval
    /\ AllTasksDone
    /\ uiInterval' = FALSE
    /\ progress' = 100
    /\ lastAlert' = IF Len(uploadErrors) > 0 THEN "errors" ELSE lastAlert
    /\ resetTimer' = TRUE
    /\ UNCHANGED <<uploading, activeGalleryId, fileProgressMap, filesToUpload,
                   uploadErrors, taskPc, simulationInterval, stored, inserted>>
    /\ UNCHANGED <<earlier, cntVars, dlVars>>

\* A reset that leaves the running flag set.
ResetStateKeepsUploading ==
    /\ resetTimer
    /\ resetTimer' = FALSE
    /\ activeGalleryId' = "null"
    /\ progress' = 0
    /\ fileProgressMap' = <<>>
    /\ UNCHANGED <<uploading, filesToUpload, uploadErrors, taskPc,
                   simulationInterval, uiInterval, stored, inserted, lastAlert>>
    /\ UNCHANGED <<earlier, cntVars, dlVars>>

\* A reset that leaves the owner of the batch in place.
ResetStateKeepsOwner ==
    /\ resetTimer
    /\ resetTimer' = FALSE
    /\ uploading' = FALSE
    /\ progress' = 0
    /\ fileProgressMap' = <<>>
    /\ UNCHANGED <<activeGalleryId, filesToUpload, uploadErrors, taskPc,
                   simulationInterval, uiInterval, stored, inserted, lastAlert>>
    /\ UNCHANGED <<earlier, cntVars, dlVars>>

\* part_000:151-156: the reset timer fires
ResetState ==
    /\ resetTimer
    /\ resetTimer' = FALSE
    /\ uploading' = FALSE
    /\ activeGalleryId' = "null"
    /\ progress' = 0
    /\ fileProgressMap' = <<>>
    /\ UNCHANGED <<filesToUpload, uploadErrors, taskPc, simulationInterval,
                   uiInterval, stored, inserted, lastAlert>>
    /\ UNCHANGED <<earlier, cntVars, dlVars>>

\* ---- the steps of the call whose locals are in earlier ----
EarlierCall == earlier[1]

\* part_000:59-64: the publish ticker of the earlier call; it sums the
\* shared fileProgressMap against the bytes of its own files
EarlierUiTick ==
    /\ earlier # <<>>
    /\ EarlierCall.uiInterval
    /\ progress' = Min(ProgressCeiling,
                       PercentageOf(SumSeq(EarlierCall.filesToUpload)))
    /\ UNCHANGED <<uploading, activeGalleryId, fileProgressMap, filesToUpload,
                   uploadErrors, taskPc, simulationInterval, uiInterval,
                   resetTimer, stored, inserted, lastAlert>>
    /\ UNCHANGED <<earlier, cntVars, dlVars>>

\* part_000:79-85: the simulation ticker of file index of the earlier call
EarlierSimulationTick(index) ==
    /\ earlier # <<>>
    /\ index \in 1..Len(EarlierCall.filesToUpload)
    /\ EarlierCall.simulationInterval[index]
    /\ Entry(fileProgressMap, index)
           < MaxTicks * bytesPerTickN(EarlierCall.filesToUpload[index])
    /\ LET current == Entry(fileProgressMap, index)
           size    == EarlierCall.filesToUpload[index]
       IN  /\ BelowSimulationCap(current, size)
           /\ fileProgressMap' =
                 SetEntry(fileProgressMap, index, current + bytesPerTickN(size))
    /\ UNCHANGED <<uploading, progress, activeGalleryId, filesToUpload,
                   uploadErrors, taskPc, simulationInterval, uiInterval,
                   resetTimer, stored, inserted, lastAlert>>
    /\ UNCHANGED <<earlier, cntVars, dlVars>>

\* part_000:128-135: catch (when failed) and finally of one file of call c
CallTaskSettled(c, index, failed) ==
    [c EXCEPT !.uploadErrors = IF failed THEN Append(@, index) ELSE @,
              !.simulationInterval[index] = FALSE,
              !.taskPc[index] = "done"]

\* part_000:94-102, 128-135: the storage write of the earlier call resolves
EarlierStorageResolve(index, ok) ==
    /\ earlier # <<>>
    /\ index \in 1..Len(EarlierCall.filesToUpload)
    /\ EarlierCall.taskPc[index] = "upload"
    /\ IF ok
       THEN /\ earlier' = <<[EarlierCall EXCEPT !.stored = @ \cup {index},
                                                !.taskPc[index] = "insert"]>>
            /\ UNCHANGED fileProgressMap
       ELSE /\ earlier' = <<CallTaskSettled(EarlierCall, index, TRUE)>>
            /\ fileProgressMap' =
                 SetEntry(fileProgressMap, index,
                          EarlierCall.filesToUpload[index] * NumFiles)
    /\ UNCHANGED <<uploading, progress, activeGalleryId, filesToUpload,
                   uploadErrors, taskPc, simulationInterval, uiInterval,
                   resetTimer, stored, inserted, lastAlert>>
    /\ UNCHANGED <<cntVars, dlVars>>

\* part_000:116-135: the metadata insert of the earlier call resolves
EarlierInsertResolve(index, ok) ==
    /\ earlier # <<>>
    /\ index \in 1..Len(EarlierCall.filesToUpload)
    /\ EarlierCall.taskPc[index] = "insert"
    /\ earlier' =
         <<[CallTaskSettled(EarlierCall, index, ~ok) EXCEPT
               !.inserted = IF ok THEN @ \cup {index} ELSE @]>>
    /\ fileProgressMap' =
         SetEntry(fileProgressMap, index,
                  EarlierCall.filesToUpload[index] * NumFiles)
    /\ UNCHANGED <<uploading, progress, activeGalleryId, filesToUpload,
                   uploadErrors, taskPc, simulationInterval, uiInterval,
                   resetTimer, stored, inserted, lastAlert>>
    /\ UNCHANGED <<cntVars, dlVars>>

\* part_000:67, 140-157: the finally block of the earlier call
EarlierBatchFinally ==
    /\ earlier # <<>>
    /\ EarlierCall.uiInterval
    /\ \A i \in 1..Len(EarlierCall.taskPc) : EarlierCall.taskPc[i] = "done"
    /\ earlier' = <<[EarlierCall EXCEPT !.uiInterval = FALSE,
                                        !.resetTimer = TRUE]>>
    /\ progress' = 100
    /\ lastAlert' = IF Len(EarlierCall.uploadErrors) > 0
                    THEN "errors" ELSE lastAlert
    /\ UNCHANGED <<uploading, activeGalleryId, fileProgressMap, filesToUpload,
                   uploadErrors, taskPc, simulationInterval, uiInterval,
                   resetTimer, stored, inserted>>
    /\ UNCHANGED <<cntVars, dlVars>>

\* part_000:151-156: the reset timer of the earlier call fires; nothing of
\* that call is left to run
EarlierResetState ==
    /\ earlier # <<>>
    /\ EarlierCall.resetTimer
    /\ earlier' = <<>>
    /\ uploading' = FALSE
    /\ activeGalleryId' = "null"
    /\ progress' = 0
    /\ fileProgressMap' = <<>>
    /\ UNCHANGED <<filesToUpload, uploadErrors, taskPc, simulationInterval,
                   uiInterval, resetTimer, stored, inserted, lastAlert>>
    /\ UNCHANGED <<cntVars, dlVars>>

UpNext ==
    \/ UploadRejected
    \/ \E g \in GalleryIds, fs \in SeqsUpTo(Sizes, MaxFiles) : UploadAccepted(g, fs)
    \/ UiTick
    \/ \E i \in 1..MaxFiles : SimulationTick(i)
    \/ \E i \in 1..MaxFiles, ok \in BOOLEAN : StorageResolve(i, ok)
    \/ \E i \in 1..MaxFiles, ok \in BOOLEAN : InsertResolve(i, ok)
    \/ BatchFinally
    \/ ResetState

\* ------------------------------------------------------------------------
\* Bulk-download path: src/pages/ClientGallery.tsx
\* ------------------------------------------------------------------------

\* ClientGallery.tsx:316
CONCURRENCY_LIMIT == 3

\* Names the files of a gallery can have in the archive
\* (ClientGallery.tsx:328: file.file_path.split('/').pop())
Names == {"a.jpg", "b.jpg"}

\* The calls of handleDownloadAll whose locals the model keeps
Slots == DOMAIN batch

\* ClientGallery.tsx:313
total == Len(files)

\* The locals of a call of handleDownloadAll that has not started, or whose
\* locals have been released.
\*   pc             "idle" | "fetching" (awaiting Promise.all, line 356)
\*                  | "packaging" (awaiting generateAsync, line 363) | "done"
\*   aborted        signal.aborted of the call's AbortController
\*   queue          the files not yet taken (line 317), as indices into files
\*   activePromises per chain started at line 353: the file whose fetch it
\*                  awaits, 0 when the chain has returned
\*   zip            the entries of the JSZip: <<name, file>> pairs
\*   processed      line 312
\*   status         per file: "Pending" | "InFlight" | "Succeeded" |
\*                  "Skipped" (fetch failed) | "Aborted" (AbortError)
\*   logged         the names of the errors that processFile has passed to
\*                  console.error (line 332); console output outlives the call
\*   exit           how the call left the try block: "none" |
\*                  "aborted358" | "aborted368" | "saved" | "error"
\*   inFlightAtCancel, terminalAfterCancel
\*                  history: fetches in flight when abort() was called, and
\*                  fetches that ran their finally block since
IdleBatch ==
    [pc |-> "idle", aborted |-> FALSE, queue |-> <<>>, activePromises |-> <<>>,
     zip |-> {}, processed |-> 0, status |-> <<>>, logged |-> {},
     exit |-> "none",
     inFlightAtCancel |-> 0, terminalAfterCancel |-> 0]

Terminal(st) == st \in {"Succeeded", "Skipped", "Aborted"}

InFlight(bt) == {f \in 1..Len(bt.status) : bt.status[f] = "InFlight"}

Settled(bt) == {f \in 1..Len(bt.status) : Terminal(bt.status[f])}

Succeeded(bt) == {f \in 1..Len(bt.status) : bt.status[f] = "Succeeded"}

\* ClientGallery.tsx:328-329: zip.file(fileName, blob) replaces an entry of
\* the same name
ZipFile(zip, name, file) == {e \in zip : e[1] # name} \cup {<<name, file>>}

\* A processFile that counts the file it does not fetch as processed.
ProcessFileSkippedCounted(bt, file) ==
    [bt EXCEPT !.status[file] = "Aborted", !.processed = @ + 1]

\* ClientGallery.tsx:322: processFile returns before the try block when the
\* signal is aborted: nothing of the call changes
ProcessFileSkipped(bt, file) == bt

\* A processFile that does not look at the signal.
SignalAbortedIgnored(bt) == FALSE

\* ClientGallery.tsx:322: if (signal.aborted) return
SignalAborted(bt) == bt.aborted

\* A next() that reads the head of the queue without removing it.
NextFilePeek(bt, w) ==
    IF bt.queue = <<>>
    THEN [bt EXCEPT !.activePromises[w] = 0]
    ELSE IF SignalAborted(bt)
         THEN [bt EXCEPT !.queue = <<>>, !.activePromises[w] = 0]
         ELSE [bt EXCEPT !.activePromises[w] = Head(bt.queue),
                         !.status[Head(bt.queue)] = "InFlight"]

\* ClientGallery.tsx:342-349 with 321-325: chain w calls next(): it takes
\* files from the queue until one starts a fetch or the queue is empty
RECURSIVE NextFile(_, _)
NextFile(bt, w) ==
    IF bt.queue = <<>>
    THEN [bt EXCEPT !.activePromises[w] = 0]
    ELSE LET file == Head(bt.queue)
             rest == [bt EXCEPT !.queue = Tail(bt.queue)]
         IN  IF SignalAborted(rest)
             THEN NextFile(ProcessFileSkipped(rest, file), w)
             ELSE [rest EXCEPT !.activePromises[w] = file,
                               !.status[file] = "InFlight"]

\* A start of the chains without the limit.
InitialChainsUnlimited(n) == n

\* A start with a single chain.
InitialChainsSingle(n) == Min(1, n)

\* ClientGallery.tsx:352: Math.min(CONCURRENCY_LIMIT, files.length)
InitialChains(n) == Min(CONCURRENCY_LIMIT, n)

\* ClientGallery.tsx:352-354: the chains w..k call next() one after another
RECURSIVE StartChains(_, _, _)
StartChains(bt, w, k) ==
    IF w > k THEN bt ELSE StartChains(NextFile(bt, w), w + 1, k)

\* ClientGallery.tsx:311-354: the locals of a call up to its first await
StartedBatch ==
    StartChains(
        [IdleBatch EXCEPT !.pc = "fetching",
                          !.queue = [i \in 1..total |-> i],
                          !.activePromises = [w \in 1..InitialChains(total) |-> 0],
                          !.status = [i \in 1..total |-> "Pending"]],
        1, InitialChains(total))

\* A catch block without the AbortError filter: every failure is logged.
FetchSettledUnfiltered(bt, w, outcome) ==
    LET file == bt.activePromises[w]
        st   == CASE outcome = "ok"    -> "Succeeded"
                  [] outcome = "error" -> "Skipped"
                  [] outcome = "abort" -> "Aborted"
    IN  [bt EXCEPT !.status[file] = st,
                   !.zip = IF outcome = "ok"
                           THEN ZipFile(@, files[file], file) ELSE @,
                   !.logged = CASE outcome = "ok"    -> @
                                [] outcome = "error" -> @ \cup {"Error"}
                                [] outcome = "abort" -> @ \cup {"AbortError"},
                   !.processed = @ + 1]

\* ClientGallery.tsx:325-338: the fetch awaited by chain w ends; outcome is
\* "ok" (blob read), "error" (network error or response not ok) or "abort"
\* (fetch or blob() rejects with an AbortError, which the catch block does
\* not log)
FetchSettled(bt, w, outcome) ==
    LET file == bt.activePromises[w]
        st   == CASE outcome = "ok"    -> "Succeeded"
                  [] outcome = "error" -> "Skipped"
                  [] outcome = "abort" -> "Aborted"
    IN  [bt EXCEPT !.status[file] = st,
                   !.zip = IF outcome = "ok"
                           THEN ZipFile(@, files[file], file) ELSE @,
                   !.logged = IF outcome = "error" THEN @ \cup {"Error"} ELSE @,
                   !.processed = @ + 1]

\* History: the files that became terminal from bt to nx are counted when
\* abort() had been called.
CountAfterCancel(bt, nx) ==
    IF bt.aborted
    THEN [nx EXCEPT !.terminalAfterCancel =
                        @ + Cardinality(Settled(nx) \ Settled(bt))]
    ELSE nx

AllChainsReturned(bt) ==
    \A w \in 1..Len(bt.activePromises) : bt.activePromises[w] = 0

\* ClientGallery.tsx:376-381: the locals of a call are released when it ends
Released(bt, how) ==
    [IdleBatch EXCEPT !.pc = "done", !.aborted = bt.aborted, !.exit = how,
                      !.logged = bt.logged,
                      !.inFlightAtCancel = bt.inFlightAtCancel,
                      !.terminalAfterCancel = bt.terminalAfterCancel]

DlIdle ==
    /\ files = <<>>
    /\ selection_enabled = FALSE
    /\ balance = 0
    /\ showPayModal = FALSE
    /\ downloadingAll = FALSE
    /\ downloadProgress = 0
    /\ downloadStatusText = ""
    /\ abortControllerRef = 0
    /\ dlAlert = "none"
    /\ batch = <<IdleBatch>>

\* The first slot whose call has ended or never started
FreeSlot(b) ==
    /\ batch[b].pc \in {"idle", "done"}
    /\ \A c \in 1..(b - 1) : batch[c].pc \notin {"idle", "done"}

\* ClientGallery.tsx:291-303: the early returns of handleDownloadAll.  The
\* button is disabled while downloadingAll (line 461).
DownloadAllRefused ==
    /\ ~downloadingAll
    /\ total > 0
    /\ selection_enabled \/ balance > 0
    /\ IF selection_enabled
       THEN dlAlert' = "selection" /\ UNCHANGED showPayModal
       ELSE showPayModal' = TRUE /\ UNCHANGED dlAlert
    /\ UNCHANGED <<files, selection_enabled, balance, downloadingAll,
                   downloadProgress, downloadStatusText, abortControllerRef,
                   batch>>
    /\ UNCHANGED <<upVars, cntVars>>

\* ClientGallery.tsx:305-356: handleDownloadAll up to await Promise.all
DownloadAllStart(b) ==
    /\ ~downloadingAll
    /\ total > 0
    /\ ~selection_enabled
    /\ balance <= 0
    /\ FreeSlot(b)
    /\ downloadingAll' = TRUE
    /\ downloadProgress' = 0
    /\ downloadStatusText' = "Preparing list..."
    /\ abortControllerRef' = b
    /\ batch' = [batch EXCEPT ![b] = StartedBatch]
    /\ UNCHANGED <<files, selection_enabled, balance, showPayModal, dlAlert>>
    /\ UNCHANGED <<upVars, cntVars>>

\* A finally block that leaves the running flag as it is.
DownloadAllFinallyKeepsFlag(b, bt, how) ==
    /\ UNCHANGED downloadingAll
    /\ downloadProgress' = 0
    /\ downloadStatusText' = ""
    /\ abortControllerRef' = 0
    /\ batch' = [batch EXCEPT ![b] = Released(bt, how)]

\* ClientGallery.tsx:376-381: the finally block of handleDownloadAll
DownloadAllFinally(b, bt, how) ==
    /\ downloadingAll' = FALSE
    /\ downloadProgress' = 0
    /\ downloadStatusText' = ""
    /\ abortControllerRef' = 0
    /\ batch' = [batch EXCEPT ![b] = Released(bt, how)]

\* A processFile without its catch block: a failed fetch rejects the chain,
\* Promise.all rejects and the call ends in the outer catch.
FetchResolveUncaught(b, w, outcome) ==
    /\ batch[b].pc = "fetching"
    /\ w \in 1..Len(batch[b].activePromises)
    /\ batch[b].activePromises[w] # 0
    /\ outcome = "abort" => batch[b].aborted
    /\ LET bt == batch[b]
           s1 == FetchSettled(bt, w, outcome)
           s2 == CountAfterCancel(bt, NextFile(s1, w))
       IN  IF outcome = "error"
           THEN /\ DownloadAllFinally(b, s1, "error")
                /\ dlAlert' = "failed"
           ELSE /\ UNCHANGED dlAlert
                /\ IF ~AllChainsReturned(s2)
                   THEN /\ downloadProgress' = CountPercent(s1.processed, total)
                        /\ downloadStatusText' = "Fetching files"
                        /\ batch' = [batch EXCEPT ![b] = s2]
                        /\ UNCHANGED <<downloadingAll, abortControllerRef>>
                   ELSE IF s2.aborted
                   THEN DownloadAllFinally(b, s2, "aborted358")
                   ELSE /\ downloadProgress' = CountPercent(s1.processed, total)
                        /\ downloadStatusText' = "Packaging... (almost done)"
                        /\ batch' = [batch EXCEPT
                                        ![b] = [s2 EXCEPT !.pc = "packaging"]]
                        /\ UNCHANGED <<downloadingAll, abortControllerRef>>
    /\ UNCHANGED <<files, selection_enabled, balance, showPayModal>>
    /\ UNCHANGED <<upVars, cntVars>>

\* ClientGallery.tsx:325-358: the fetch of chain w of call b ends; its
\* finally block runs, the chain calls next(), and when the last chain has
\* returned Promise.all resolves and the call goes on to line 358
FetchResolve(b, w, outcome) ==
    /\ batch[b].pc = "fetching"
    /\ w \in 1..Len(batch[b].activePromises)
    /\ batch[b].activePromises[w] # 0
    /\ outcome = "abort" => batch[b].aborted
    /\ LET bt == batch[b]
           s1 == FetchSettled(bt, w, outcome)
           s2 == CountAfterCancel(bt, NextFile(s1, w))
       IN  IF ~AllChainsReturned(s2)
           THEN /\ downloadProgress' = CountPercent(s1.processed, total)
                /\ downloadStatusText' = "Fetching files"
                /\ batch' = [batch EXCEPT ![b] = s2]
                /\ UNCHANGED <<downloadingAll, abortControllerRef>>
           ELSE IF s2.aborted
           THEN DownloadAllFinally(b, s2, "aborted358")
           ELSE /\ downloadProgress' = CountPercent(s1.processed, total)
                /\ downloadStatusText' = "Packaging... (almost done)"
                /\ batch' = [batch EXCEPT ![b] = [s2 EXCEPT !.pc = "packaging"]]
                /\ UNCHANGED <<downloadingAll, abortControllerRef>>
    /\ UNCHANGED <<files, selection_enabled, balance, showPayModal, dlAlert>>
    /\ UNCHANGED <<upVars, cntVars>>

\* A packaging step that hands the archive over without looking at the
\* signal again.
PackagedExitUnchecked(bt) == "saved"

\* ClientGallery.tsx:368-371: after generateAsync, return when aborted,
\* otherwise saveAs
PackagedExit(bt) == IF bt.aborted THEN "aborted368" ELSE "saved"

\* ClientGallery.tsx:363-381: generateAsync resolves (ok) or rejects
PackageResolve(b, ok) ==
    /\ batch[b].pc = "packaging"
    /\ DownloadAllFinally(b, batch[b],
                          IF ok THEN PackagedExit(batch[b]) ELSE "error")
    /\ dlAlert' = IF ok THEN dlAlert ELSE "failed"
    /\ UNCHANGED <<files, selection_enabled, balance, showPayModal>>
    /\ UNCHANGED <<upVars, cntVars>>

\* ClientGallery.tsx:386: abortControllerRef.current.abort() on the
\* controller of call bt; the history counters start at the first abort
Abort(bt) ==
    IF bt.aborted THEN bt
    ELSE [bt EXCEPT !.aborted = TRUE,
                    !.inFlightAtCancel = Cardinality(InFlight(bt)),
                    !.terminalAfterCancel = 0]

\* The state cancelDownloadAll reads and writes
CancelScope ==
    [batch |-> batch, downloadingAll |-> downloadingAll,
     downloadStatusText |-> downloadStatusText,
     abortControllerRef |-> abortControllerRef]

\* A cancelDownloadAll that flips the flag instead of clearing it.
CancelledToggling(st) ==
    IF st.abortControllerRef # 0
    THEN [st EXCEPT !.batch[st.abortControllerRef] = Abort(@),
                    !.downloadingAll = ~@,
                    !.downloadStatusText = ""]
    ELSE st

\* ClientGallery.tsx:384-390: the body of cancelDownloadAll, from the state
\* st it is called in to the state it leaves
Cancelled(st) ==
    IF st.abortControllerRef # 0
    THEN [st EXCEPT !.batch[st.abortControllerRef] = Abort(@),
                    !.downloadingAll = FALSE,
                    !.downloadStatusText = ""]
    ELSE st

\* ClientGallery.tsx:384-390: cancelDownloadAll.  The Cancel button is
\* rendered while downloadingAll (line 727).
CancelDownloadAll ==
    /\ downloadingAll
    /\ LET nx == Cancelled(CancelScope)
       IN  /\ batch' = nx.batch
           /\ downloadingAll' = nx.downloadingAll
           /\ downloadStatusText' = nx.downloadStatusText
    /\ UNCHANGED <<files, selection_enabled, balance, showPayModal,
                   downloadProgress, abortControllerRef, dlAlert>>
    /\ UNCHANGED <<upVars, cntVars>>

\* The gallery as loaded (ClientGallery.tsx:142, 160): its files, its
\* selection mode and its balance.  The model keeps the locals of one call
\* at a time for a gallery of up to MaxDownloadFiles files, and of up to
\* MaxBatches overlapping calls for a gallery of up to MaxOverlapFiles files.
InitDownload ==
    /\ \/ /\ files \in SeqsUpTo(Names, MaxDownloadFiles)
          /\ batch = <<IdleBatch>>
       \/ /\ files \in SeqsUpTo(Names, MaxOverlapFiles)
          /\ batch = [b \in 1..MaxBatches |-> IdleBatch]
    /\ selection_enabled \in BOOLEAN
    /\ balance \in {0, 1}
    /\ showPayModal = FALSE
    /\ downloadingAll = FALSE
    /\ downloadProgress = 0
    /\ downloadStatusText = ""
    /\ abortControllerRef = 0
    /\ dlAlert = "none"
    /\ UpInit
    /\ CountIdle

DlNext ==
    \/ DownloadAllRefused
    \/ \E b \in Slots : DownloadAllStart(b)
    \/ \E b \in Slots : \E w \in 1..Len(batch[b].activePromises),
          outcome \in {"ok", "error", "abort"} : FetchResolve(b, w, outcome)
    \/ \E b \in Slots, ok \in BOOLEAN : PackageResolve(b, ok)
    \/ CancelDownloadAll

SpecDownload == InitDownload /\ [][DlNext]_vars

\* Every fetch a chain awaits resolves or rejects (an aborted fetch rejects
\* with an AbortError), and generateAsync settles.
DownloadFairness ==
    /\ \A b \in 1..MaxBatches : \A w \in 1..CONCURRENCY_LIMIT :
           WF_vars(\E outcome \in {"ok", "error", "abort"} :
                      b \in Slots /\ FetchResolve(b, w, outcome))
    /\ \A b \in 1..MaxBatches :
           WF_vars(\E ok \in BOOLEAN : b \in Slots /\ PackageResolve(b, ok))

\* The galleries of the liveness checks: every file carries the same name,
\* nothing is owed and selection mode is off, so that every press of the
\* button starts a call; one call at a time for up to MaxDownloadFiles files,
\* or a cancelled call and its successor for up to MaxOverlapFiles files.
FairNames == {"a.jpg"}

FairInitDownload ==
    /\ \/ /\ files \in SeqsUpTo(FairNames, MaxDownloadFiles)
          /\ batch = <<IdleBatch>>
       \/ /\ files \in SeqsUpTo(FairNames, MaxOverlapFiles)
          /\ batch = <<IdleBatch, IdleBatch>>
    /\ selection_enabled = FALSE
    /\ balance = 0
    /\ showPayModal = FALSE
    /\ downloadingAll = FALSE
    /\ downloadProgress = 0
    /\ downloadStatusText = ""
    /\ abortControllerRef = 0
    /\ dlAlert = "none"
    /\ UpInit
    /\ CountIdle

FairDlNext ==
    \/ \E b \in Slots : DownloadAllStart(b)
    \/ \E b \in Slots : \E w \in 1..Len(batch[b].activePromises),
          outcome \in {"ok", "error", "abort"} : FetchResolve(b, w, outcome)
    \/ \E b \in Slots, ok \in BOOLEAN : PackageResolve(b, ok)
    \/ CancelDownloadAll

SpecDownloadFair == FairInitDownload /\ [][FairDlNext]_vars /\ DownloadFairness

InitUpload == UpInit /\ CountIdle /\ DlIdle

SpecUpload == InitUpload /\ [][UpNext]_vars

\* The upload path for the liveness claims: the files of a batch all have
\* the size the simulation ticks reach exactly (which size they have does
\* not change which steps are enabled).
FairSizes == {3000000}

FairNext ==
    \/ UploadRejected
    \/ \E g \in GalleryIds, fs \in SeqsUpTo(FairSizes, MaxFiles) :
          UploadAccepted(g, fs)
    \/ UiTick
    \/ \E i \in 1..MaxFiles : SimulationTick(i)
    \/ \E i \in 1..MaxFiles, ok \in BOOLEAN : StorageResolve(i, ok)
    \/ \E i \in 1..MaxFiles, ok \in BOOLEAN : InsertResolve(i, ok)
    \/ BatchFinally
    \/ ResetState

\* Every transport call resolves (the assumption of the liveness claims);
\* the continuation of a resolved Promise.all and a timer that is set run
\* (the event loop).
UploadFairness ==
    /\ \A i \in 1..MaxFiles : WF_vars(\E ok \in BOOLEAN : StorageResolve(i, ok))
    /\ \A i \in 1..MaxFiles : WF_vars(\E ok \in BOOLEAN : InsertResolve(i, ok))
    /\ WF_vars(BatchFinally)
    /\ WF_vars(ResetState)

SpecUploadFair == InitUpload /\ [][FairNext]_vars /\ UploadFairness

\* The upload path with a caller that calls uploadFiles again before the
\* next render
InitResubmit == InitUpload

ResubmitNext ==
    \/ UploadRejected
    \/ \E g \in GalleryIds, fs \in SeqsUpTo(Sizes, MaxResubmitFiles) :
          UploadAccepted(g, fs)
    \/ \E g \in GalleryIds, fs \in SeqsUpTo(Sizes, MaxResubmitFiles) :
          UploadResubmitted(g, fs)
    \/ UiTick
    \/ \E i \in 1..MaxResubmitFiles : SimulationTick(i)
    \/ \E i \in 1..MaxResubmitFiles, ok \in BOOLEAN : StorageResolve(i, ok)
    \/ \E i \in 1..MaxResubmitFiles, ok \in BOOLEAN : InsertResolve(i, ok)
    \/ BatchFinally
    \/ ResetState
    \/ EarlierUiTick
    \/ \E i \in 1..MaxResubmitFiles : EarlierSimulationTick(i)
    \/ \E i \in 1..MaxResubmitFiles, ok \in BOOLEAN :
          EarlierStorageResolve(i, ok)
    \/ \E i \in 1..MaxResubmitFiles, ok \in BOOLEAN :
          EarlierInsertResolve(i, ok)
    \/ EarlierBatchFinally
    \/ EarlierResetState

SpecResubmit == InitResubmit /\ [][ResubmitNext]_vars

\* ------------------------------------------------------------------------
\* Upload path: properties
\* ------------------------------------------------------------------------

\* C1: from submit until the batch state is reset, the published progress
\* never decreases, whatever the interleaving of ticks and completions.
C1_ProgressNeverDecreases ==
    [][(uploading /\ uploading') => progress' >= progress]_vars

\* C2: in every state every entry of fileProgressMap is at most the size of
\* its file (entries are held multiplied by the number of files).
C2_BytesAccountedAtMostSize ==
    \A i \in 1..Len(fileProgressMap) :
        fileProgressMap[i] <= filesToUpload[i] * NumFiles

\* C3: while the transport call of a file has not resolved, its simulated
\* entry is at most 90% of the file size.
C3_SimulationAtMostNinetyPercent ==
    \A i \in 1..Len(fileProgressMap) :
        taskPc[i] # "done" =>
            10 * fileProgressMap[i] <= 9 * filesToUpload[i] * NumFiles

AllTasksFailed ==
    /\ NumFiles > 0
    /\ AllTasksDone
    /\ inserted = {}

\* C14: when every transport call resolves, a batch reaches progress 100;
\* a batch all of whose tasks failed (storage write or metadata insert)
\* reaches progress 100 with a non-empty uploadErrors, and after that
\* uploading becomes false.
C14_AllFailedBatchFinishes ==
    /\ uiInterval ~> (progress = 100)
    /\ (uiInterval /\ AllTasksFailed) ~>
           (progress = 100 /\ AllTasksFailed /\ Len(uploadErrors) > 0)
    /\ (progress = 100 /\ AllTasksFailed) ~> ~uploading

\* C14 witness: a batch of MaxFiles files, one failed at the storage write
\* and another at the metadata insert, shows 100 with every failure
\* recorded.
C14_Witness ==
    /\ progress = 100
    /\ uploading
    /\ NumFiles = MaxFiles
    /\ AllTasksFailed
    /\ Len(uploadErrors) = NumFiles
    /\ stored # {}
    /\ stored # 1..NumFiles

\* part_000:151-156: the state the reset timer leaves
BatchStateReset ==
    /\ ~uploading
    /\ activeGalleryId = "null"
    /\ progress = 0
    /\ fileProgressMap = <<>>

StoreFailed == {i \in 1..NumFiles : taskPc[i] = "done" /\ i \notin stored}

InsertFailed == {i \in stored : taskPc[i] = "done" /\ i \notin inserted}

\* C15: when a batch of n files finishes with k storage writes failed and
\* no metadata insert failed, uploadErrors has exactly k entries (the k
\* files), n - k records have been inserted and progress is 100; and the
\* step in which a task fails changes no other task and stops no ticker of
\* another task.
C15_PartialFailure ==
    [][/\ (~resetTimer /\ resetTimer' /\ InsertFailed' = {}) =>
            /\ Len(uploadErrors') = Cardinality(StoreFailed')
            /\ {uploadErrors'[j] : j \in 1..Len(uploadErrors')} = StoreFailed'
            /\ Cardinality(inserted') = NumFiles - Cardinality(StoreFailed')
            /\ progress' = 100
       /\ (uploading /\ Len(uploadErrors') = Len(uploadErrors) + 1) =>
            LET failed == uploadErrors'[Len(uploadErrors')]
            IN  /\ \A j \in 1..NumFiles :
                       j # failed => /\ taskPc'[j] = taskPc[j]
                                     /\ simulationInterval'[j] =
                                            simulationInterval[j]
                /\ uiInterval' = uiInterval]_vars

\* C15 witness: a batch of MaxFiles files has finished, one storage write
\* failed, every other file has its record inserted.
C15_Witness ==
    /\ resetTimer
    /\ NumFiles = MaxFiles
    /\ Cardinality(StoreFailed) = 1
    /\ InsertFailed = {}
    /\ Len(uploadErrors) = 1
    /\ Cardinality(inserted) = MaxFiles - 1
    /\ progress = 100

\* C16: in every state uploadErrors has at most as many entries as the
\* batch has tasks, and no task is entered twice.
C16_ErrorsAtMostTasks ==
    /\ Len(uploadErrors) <= NumFiles
    /\ \A j, k \in 1..Len(uploadErrors) :
           uploadErrors[j] = uploadErrors[k] => j = k

\* C16 witness: every task of a batch of MaxFiles files has failed, at
\* either stage, and uploadErrors is as long as the batch.
C16_Witness ==
    /\ NumFiles = MaxFiles
    /\ Len(uploadErrors) = NumFiles
    /\ InsertFailed # {}
    /\ StoreFailed # {}

\* The per-file finally block of task i has run: its interval is cleared,
\* its entry is its size
TaskTerminal(i) ==
    /\ taskPc[i] = "done"
    /\ ~simulationInterval[i]
    /\ Entry(fileProgressMap, i) = filesToUpload[i] * NumFiles

\* C18: the final events of a batch (progress forced to 100, the publish
\* ticker cleared, the error summary shown, the reset timer set) happen
\* only in a state in which the finally block of every task has run, and
\* no task makes a transition afterwards.
C18_FinalEventsAfterEveryTask ==
    [][/\ (uploading /\
           (\/ progress' = 100 /\ progress # 100
            \/ lastAlert' = "errors" /\ lastAlert # "errors"
            \/ resetTimer' /\ ~resetTimer
            \/ uiInterval /\ ~uiInterval')) =>
              \A i \in 1..NumFiles : TaskTerminal(i)
       /\ (resetTimer /\ resetTimer') =>
              UNCHANGED <<taskPc, uploadErrors, stored, inserted>>]_vars

\* C18 witness: the final events have happened for a batch of MaxFiles
\* files whose last task to settle was the first of the list, with errors
\* to summarise.
C18_Witness ==
    /\ resetTimer
    /\ progress = 100
    /\ lastAlert = "errors"
    /\ NumFiles = MaxFiles
    /\ Len(uploadErrors) = NumFiles
    /\ uploadErrors[Len(uploadErrors)] = 1

BatchActive == uiInterval \/ resetTimer \/ earlier # <<>>

\* A step that is a call of uploadFiles
UploadFilesCalled ==
    \/ UploadRejected
    \/ \E g \in GalleryIds, fs \in SeqsUpTo(Sizes, MaxFiles) :
          UploadAccepted(g, fs) \/ UploadResubmitted(g, fs)

\* C12: a call of uploadFiles made while a batch is active is rejected with
\* the already-running alert, starts no transport call and no ticker, and
\* leaves uploading, progress, activeGalleryId and fileProgressMap as they
\* were, also when it is made before the render that follows the first
\* call.
C12_SecondCallRejected ==
    [][(BatchActive /\ UploadFilesCalled) =>
          /\ lastAlert' = "already"
          /\ UNCHANGED <<uploading, progress, activeGalleryId, fileProgressMap,
                         filesToUpload, uploadErrors, taskPc, simulationInterval,
                         uiInterval, resetTimer, stored, inserted, earlier>>]_vars

ErrorsOf(errs, i) == {j \in 1..Len(errs) : errs[j] = i}

\* C28: the metadata insert of a file is attempted only after its storage
\* write has succeeded: a task awaits the insert only for a stored file, a
\* record is inserted only by a task that awaited the insert, and no record
\* exists for a file that is not stored.  When the batch has settled, every
\* stored file has either its record or exactly one entry in uploadErrors,
\* never both and never neither.
C28_InsertOnlyAfterStore ==
    [][/\ \A i \in 1..Len(taskPc') : taskPc'[i] = "insert" => i \in stored'
       /\ inserted' \subseteq stored'
       /\ \A i \in inserted' \ inserted :
              taskPc[i] = "insert" /\ taskPc'[i] = "done" /\ i \in stored
       /\ (~resetTimer /\ resetTimer') =>
              \A i \in stored' :
                 IF i \in inserted'
                 THEN ErrorsOf(uploadErrors', i) = {}
                 ELSE Cardinality(ErrorsOf(uploadErrors', i)) = 1]_vars

\* C28 witness: a batch of MaxFiles files, all stored, has settled: one file
\* has its record, for another the insert failed and is the one entry of
\* uploadErrors.
C28_Witness ==
    /\ resetTimer
    /\ NumFiles = MaxFiles
    /\ stored = 1..NumFiles
    /\ inserted # {}
    /\ InsertFailed # {}
    /\ Len(uploadErrors) = Cardinality(InsertFailed)

\* The call whose locals the variables hold has a task that has not
\* settled, or its publish ticker is running
CallHasWork ==
    \/ uiInterval
    \/ \E i \in 1..NumFiles : taskPc[i] # "done"

\* A reset timer is pending, of the call the variables hold or of the
\* earlier one
ResetPending ==
    \/ resetTimer
    \/ earlier # <<>> /\ EarlierCall.resetTimer

\* C29: the delayed reset of a finished batch never fires while a later
\* batch is active.  No call of uploadFiles is accepted while a reset timer
\* is pending, and the step in which a reset fires (uploading becomes
\* false, progress 0, the per-file map empty) starts from a state in which
\* no call has a task or a publish ticker running.
C29_ResetNeverHitsRunningBatch ==
    [][/\ (ResetPending /\ ~CallHasWork) => ~CallHasWork'
       /\ (uploading /\ ~uploading') =>
              /\ ~CallHasWork
              /\ earlier = <<>>]_vars

\* No ticker of the batch is running
TickersStopped ==
    /\ ~uiInterval
    /\ \A i \in 1..NumFiles : ~simulationInterval[i]

C6_AtMostLimitInFlight ==
    \A b \in Slots : Cardinality(InFlight(batch[b])) <= CONCURRENCY_LIMIT

\* C6 witness: the limit binds: three fetches in flight and a file waiting.
C6_Witness ==
    \E b \in Slots :
        /\ Cardinality(InFlight(batch[b])) = CONCURRENCY_LIMIT
        /\ batch[b].queue # <<>>

\* C7: when a call that was not cancelled hands its archive to saveAs, the
\* archive holds exactly one entry per file whose fetch succeeded, and
\* nothing else.
C7_ArchiveHoldsEverySucceededFile ==
    [][\A b \in Slots :
          (batch[b].pc = "packaging" /\ batch'[b].exit = "saved") =>
              /\ batch[b].zip =
                     {<<files[f], f>> : f \in Succeeded(batch[b])}
              /\ Cardinality(batch[b].zip) =
                     Cardinality(Succeeded(batch[b]))]_vars

\* C8: once abort() has been called on the controller of a call, no file of
\* that call goes from Pending to InFlight: the set of its fetches in flight
\* only shrinks.
C8_NoAdmissionAfterCancel ==
    [][\A b \in Slots :
          (batch[b].aborted /\ batch[b].pc # "done") =>
              InFlight(batch'[b]) \subseteq InFlight(batch[b])]_vars

\* C8 witness: a cancelled call whose chain has emptied the queue without
\* fetching, while another fetch of the call is still in flight.
C8_Witness ==
    \E b \in Slots :
        /\ batch[b].aborted
        /\ batch[b].pc = "fetching"
        /\ batch[b].queue = <<>>
        /\ InFlight(batch[b]) # {}
        /\ \E f \in 1..Len(batch[b].status) : batch[b].status[f] = "Pending"

\* C9: a call whose controller was aborted before the archive was handed
\* over never calls saveAs.
C9_NoArchiveWhenCancelled ==
    \A b \in Slots : batch[b].exit = "saved" => ~batch[b].aborted

\* C9 witness: a call cancelled while packaging has ended without saveAs.
C9_Witness ==
    \E b \in Slots : batch[b].pc = "done" /\ batch[b].exit = "aborted368"

\* C10: the fetches of a call that become terminal after cancel, together
\* with those still in flight, are at most the fetches that were in flight
\* when cancel was called, hence at most CONCURRENCY_LIMIT.
C10_TerminalAfterCancelBounded ==
    \A b \in Slots :
        batch[b].aborted =>
            /\ batch[b].terminalAfterCancel + Cardinality(InFlight(batch[b]))
                   <= batch[b].inFlightAtCancel
            /\ batch[b].inFlightAtCancel <= CONCURRENCY_LIMIT

\* C10 witness: a call cancelled with three fetches in flight and a file
\* still queued has ended, and three fetches became terminal after cancel.
C10_Witness ==
    \E b \in Slots :
        /\ batch[b].pc = "done"
        /\ batch[b].exit = "aborted358"
        /\ batch[b].inFlightAtCancel = CONCURRENCY_LIMIT
        /\ batch[b].terminalAfterCancel = CONCURRENCY_LIMIT
        /\ total > CONCURRENCY_LIMIT

\* C11: cancelDownloadAll is idempotent.  Called twice in a row from any
\* reachable state it leaves the state one call leaves.  Called again after
\* other steps of the call it has cancelled, it changes neither the locals
\* of any call, nor downloadingAll, nor the controller held; the one thing
\* it writes is the status text, which it clears as the end of the call
\* does.
C11_CancelIdempotent ==
    LET once == Cancelled(CancelScope)
    IN  /\ Cancelled(once) = once
        /\ (abortControllerRef # 0 /\ batch[abortControllerRef].aborted) =>
               once = [CancelScope EXCEPT !.downloadStatusText = ""]

\* C11 witness: cancel has acted on a call with two fetches in flight, one
\* of them has ended since, and the controller is still held: a second
\* cancel would find the call settling.
C11_Witness ==
    /\ abortControllerRef # 0
    /\ ~downloadingAll
    /\ batch[abortControllerRef].aborted
    /\ batch[abortControllerRef].pc = "fetching"
    /\ batch[abortControllerRef].inFlightAtCancel >= 2
    /\ batch[abortControllerRef].terminalAfterCancel >= 1
    /\ downloadStatusText # ""

\* The calls of handleDownloadAll that have not ended
ActiveCalls == {b \in Slots : batch[b].pc \in {"fetching", "packaging"}}

\* C13: at most one call of handleDownloadAll is active at any time: no call
\* is accepted while an earlier one, cancelled or not, has not ended.
C13_OneDownloadBatchAtATime == Cardinality(ActiveCalls) <= 1

\* C17: when a call that was not cancelled ends with no file fetched
\* successfully, it raises the failure alert and hands no archive to saveAs.
C17_NoEmptyArchive ==
    [][\A b \in Slots :
          (/\ batch[b].pc = "packaging"
           /\ ~batch[b].aborted
           /\ Succeeded(batch[b]) = {}
           /\ batch'[b].pc = "done") =>
              /\ batch'[b].exit # "saved"
              /\ dlAlert' = "failed"]_vars

\* The files of a call whose fetch failed, and those not yet taken
Skipped(bt) == {f \in 1..Len(bt.status) : bt.status[f] = "Skipped"}

Pending(bt) == {f \in 1..Len(bt.status) : bt.status[f] = "Pending"}

\* C20: a failed fetch does not fail a call that is not cancelled.  Such a
\* call leaves the fetching of its files only for packaging.  In the step
\* in which a fetch fails no alert is raised and the call goes on: a
\* file that was waiting is fetched in place of the failed one, and when
\* nothing is left the call is packaging with every file settled.  A call
\* that packages with skipped files hands its archive to saveAs without an
\* alert, unless generateAsync itself rejects.
C20_FetchFailureDoesNotFailBatch ==
    [][\A b \in Slots :
          /\ (batch[b].pc = "fetching" /\ ~batch[b].aborted) =>
                 batch'[b].pc \in {"fetching", "packaging"}
          /\ (/\ batch[b].pc = "fetching"
              /\ ~batch[b].aborted
              /\ Skipped(batch'[b]) # Skipped(batch[b])) =>
                 /\ dlAlert' = dlAlert
                 /\ batch'[b].exit = "none"
                 /\ IF Pending(batch[b]) # {}
                    THEN /\ batch'[b].pc = "fetching"
                         /\ Cardinality(InFlight(batch'[b])) =
                                Cardinality(InFlight(batch[b]))
                         /\ Cardinality(Pending(batch'[b])) =
                                Cardinality(Pending(batch[b])) - 1
                    ELSE IF Cardinality(InFlight(batch[b])) > 1
                    THEN batch'[b].pc = "fetching"
                    ELSE /\ batch'[b].pc = "packaging"
                         /\ Settled(batch'[b]) = 1..total
          /\ (/\ batch[b].pc = "packaging"
              /\ ~batch[b].aborted
              /\ Skipped(batch[b]) # {}
              /\ batch'[b].pc = "done") =>
                 \/ batch'[b].exit = "saved" /\ dlAlert' = dlAlert
                 \/ batch'[b].exit = "error" /\ dlAlert' = "failed"]_vars

\* C20 witness: a call over MaxDownloadFiles files that was not cancelled
\* is packaging; some fetches failed, among them one of the first chains',
\* and every other file was fetched.
C20_Witness ==
    \E b \in Slots :
        /\ batch[b].pc = "packaging"
        /\ ~batch[b].aborted
        /\ total = MaxDownloadFiles
        /\ 1 \in Skipped(batch[b])
        /\ Cardinality(Succeeded(batch[b])) = total - Cardinality(Skipped(batch[b]))
        /\ total \in Succeeded(batch[b])
        /\ dlAlert = "none"

\* C21: a fetch that ends because of cancel is never reported as a failure:
\* processFile never logs an AbortError, the step in which fetches of a
\* cancelled call end raises no alert, and a call that ends because it was
\* cancelled (the returns after Promise.all and after generateAsync) raises
\* no alert.
C21_AbortNotReported ==
    [][\A b \in Slots :
          /\ "AbortError" \notin batch'[b].logged
          /\ (batch[b].pc = "fetching" /\ batch[b].aborted /\
                 batch'[b].terminalAfterCancel >
                     batch[b].terminalAfterCancel) =>
                 dlAlert' = dlAlert
          /\ (batch[b].pc # "done" /\ batch'[b].pc = "done" /\
                 batch'[b].exit \in {"aborted358", "aborted368"}) =>
                 dlAlert' = dlAlert]_vars

\* C21 witness: a cancelled call has returned after Promise.all; fetches of
\* it were in flight at the cancel and ended afterwards, one fetch had
\* failed on its own and was logged, and no alert is shown.
C21_Witness ==
    \E b \in Slots :
        /\ batch[b].pc = "done"
        /\ batch[b].exit = "aborted358"
        /\ batch[b].inFlightAtCancel > 1
        /\ batch[b].terminalAfterCancel = batch[b].inFlightAtCancel
        /\ batch[b].logged = {"Error"}
        /\ dlAlert = "none"

\* The chains of call bt that await the fetch of file f
ChainsOf(bt, f) ==
    {w \in 1..Len(bt.activePromises) : bt.activePromises[w] = f}

\* The files still in the queue of call bt
Queued(bt) == {bt.queue[k] : k \in 1..Len(bt.queue)}

\* C23: every file is taken from the queue and admitted at most once, by
\* exactly one chain.  In every state reached by a step, a file whose fetch
\* is in flight is awaited by exactly one chain, a file a chain awaits is in
\* flight, the queue holds each waiting file once and only files never
\* admitted, and processed counts the settled files; a step admits only
\* files that were Pending and took them off the queue, and while the call
\* fetches a settled file keeps its status.  A call that was not cancelled
\* before packaging has every file settled, each counted once.  (A call
\* that a step leaves as it was has been looked at in the step that
\* brought it there.)
C23_AdmittedOnce ==
    [][\A b \in Slots :
          LET bt == batch[b]
              nx == batch'[b]
          IN  \/ nx = bt
              \/ /\ \A f \in InFlight(nx) : Cardinality(ChainsOf(nx, f)) = 1
                 /\ \A w \in 1..Len(nx.activePromises) :
                        nx.activePromises[w] # 0 =>
                            nx.activePromises[w] \in InFlight(nx)
                 /\ Cardinality(Queued(nx)) = Len(nx.queue)
                 /\ Queued(nx) \subseteq Pending(nx)
                 /\ ~nx.aborted => Queued(nx) = Pending(nx)
                 /\ nx.pc = "fetching" =>
                        nx.processed = Cardinality(Settled(nx))
                 /\ (bt.pc = "fetching" /\ nx.pc = "fetching") =>
                        /\ \A f \in InFlight(nx) \ InFlight(bt) :
                               f \in Pending(bt) /\ f \in Queued(bt)
                        /\ \A f \in Settled(bt) :
                               nx.status[f] = bt.status[f]
                 /\ (bt.pc = "fetching" /\ nx.pc = "packaging") =>
                        /\ Settled(nx) = 1..total
                        /\ nx.processed = total]_vars

\* C23 witness: a call with more files than the limit, not cancelled, has
\* reached packaging: every file was admitted and settled, some by a chain
\* that had settled another file before.
C23_Witness ==
    \E b \in Slots :
        /\ batch[b].pc = "packaging"
        /\ ~batch[b].aborted
        /\ total > CONCURRENCY_LIMIT
        /\ Settled(batch[b]) = 1..total
        /\ batch[b].processed = total
        /\ Skipped(batch[b]) # {}
        /\ Succeeded(batch[b]) # {}

\* The files of call bt that are not terminal
NonTerminal(bt) == Pending(bt) \cup InFlight(bt)

\* C24: the limiter is work-conserving.  While a call that is not cancelled
\* fetches, the number of fetches in flight is the smaller of
\* CONCURRENCY_LIMIT and the number of files not yet terminal; in the step
\* in which a fetch of such a call ends while files wait, the chain that
\* awaited it admits the head of the queue, so one file fewer waits and as
\* many fetches are in flight as before.
C24_WorkConserving ==
    [][\A b \in Slots :
          LET bt == batch[b]
              nx == batch'[b]
          IN  /\ (nx.pc = "fetching" /\ ~nx.aborted) =>
                     Cardinality(InFlight(nx)) =
                         Min(CONCURRENCY_LIMIT, Cardinality(NonTerminal(nx)))
              /\ (/\ bt.pc = "fetching"
                  /\ ~bt.aborted
                  /\ Pending(bt) # {}
                  /\ Settled(nx) # Settled(bt)) =>
                     /\ nx.pc = "fetching"
                     /\ \E w \in 1..Len(bt.activePromises) :
                            /\ bt.activePromises[w] \in
                                   Settled(nx) \ Settled(bt)
                            /\ nx.activePromises[w] = Head(bt.queue)
                            /\ \A v \in 1..Len(bt.activePromises) \ {w} :
                                   nx.activePromises[v] = bt.activePromises[v]
                     /\ Pending(nx) = Pending(bt) \ {Head(bt.queue)}
                     /\ Cardinality(InFlight(nx)) =
                            Cardinality(InFlight(bt))]_vars

\* C24 witness: in a call that is not cancelled a fetch has ended while a
\* file waited, and the chain that awaited it now awaits that file: the
\* limit is filled again.
C24_Witness ==
    \E b \in Slots :
        /\ batch[b].pc = "fetching"
        /\ ~batch[b].aborted
        /\ Settled(batch[b]) # {}
        /\ \E w \in 1..Len(batch[b].activePromises) :
               batch[b].activePromises[w] > CONCURRENCY_LIMIT
        /\ Cardinality(InFlight(batch[b])) = CONCURRENCY_LIMIT

\* Call b of handleDownloadAll is between its start and its finally block
CallRunning(b) ==
    /\ b \in Slots
    /\ batch[b].pc \in {"fetching", "packaging"}

\* Call b of handleDownloadAll has run its finally block
CallEnded(b) ==
    /\ b \in Slots
    /\ batch[b].pc = "done"

\* C25: when every fetch settles, every call of handleDownloadAll that
\* started comes to its end, whether its files were fetched, failed or were
\* cancelled, and downloadingAll, once true, becomes false; it becomes true
\* again only in a step that starts a call.
C25_DownloadEnds ==
    /\ downloadingAll ~> ~downloadingAll
    /\ \A b \in 1..MaxBatches :
           CallRunning(b) ~> (CallEnded(b) /\ ~downloadingAll)
    /\ [][(~downloadingAll /\ downloadingAll') =>
             \E b \in Slots : /\ batch[b].pc \in {"idle", "done"}
                              /\ batch'[b].pc = "fetching"
                              /\ abortControllerRef' = b]_vars

\* C25 witness: a call in which a fetch failed has handed over its archive
\* and ended; downloadingAll is false and the controller is released.
C25_Witness ==
    \E b \in Slots :
        /\ batch[b].pc = "done"
        /\ batch[b].exit = "saved"
        /\ ~batch[b].aborted
        /\ batch[b].logged = {"Error"}
        /\ ~downloadingAll
        /\ abortControllerRef = 0

\* C26: whenever a call that was not cancelled still has files waiting or
\* in flight, abortControllerRef refers to that call's own controller and
\* downloadingAll is true: the finally block of an earlier, cancelled call
\* never clears the handle or the flag of a later call.
C26_HandleBelongsToRunningBatch ==
    \A b \in Slots :
        (/\ batch[b].pc = "fetching"
         /\ ~batch[b].aborted
         /\ NonTerminal(batch[b]) # {}) =>
            /\ abortControllerRef = b
            /\ downloadingAll

\* ------------------------------------------------------------------------
\* Count-based progress: properties
\* ------------------------------------------------------------------------
\* ClientGallery.tsx:312-313: a batch of 1..MaxTotal tasks, none processed
InitCount ==
    /\ totalTaskCount \in 1..MaxTotal
    /\ completedTaskCount = 0
    /\ displayPercent = 0
    /\ UpInit
    /\ DlIdle

SpecCount == InitCount /\ [][CountNext]_vars

\* C5: the percentage published from the counts is 100 only when every task
\* of the batch has been processed.
C5_CountHundredOnlyWhenAllProcessed ==
    displayPercent = 100 => completedTaskCount = totalTaskCount

====
